---------------------------- MODULE Spec2Model ----------------------------
(***************************************************************************)
(* Shellman (src/src/main.py): the reversible file-operation engine of     *)
(* FileManagerApp (create, rename, delete to trash, copy/cut/paste,        *)
(* archive/extract, undo) together with the listing it regenerates.        *)
(*                                                                         *)
(* A name is a sequence of one-character strings, a path is a sequence of  *)
(* names below the filesystem root <<>>.  The user's home directory is the *)
(* root of the modelled filesystem and os.rename follows POSIX rules.      *)
(* The cursor row of the DataTable widget and the text typed into a modal  *)
(* are inputs of the handler that reads them.                              *)
(***************************************************************************)
EXTENDS Integers, Sequences, FiniteSets, TLC

\* ------------------------------ bounds ---------------------------------
\* longest path (in names) an operation may create
MaxDepth == 3
\* number of handler invocations explored from the initial state
MaxSteps == 3
\* number of trash timestamps available to action_delete
MaxClock == 2
\* largest number of entries marked with Space at once
MaxSel == 2
MaxLifoSteps == 5
MaxGoneSteps == 4
MaxTrashSteps == 5
MaxClipSteps == 5
MaxNavSteps == 4
MaxArchSteps == 3
MaxRestoreSteps == 6
MaxViewSteps == 4
MaxDeniedSteps == 4
MaxGitSteps == 2

\* ------------------------------ names ----------------------------------
nA == <<"a">>
nB == <<"b">>
nC == <<"c">>
nD == <<"d">>
ZipSuffix == <<".", "z", "i", "p">>
TrashName == <<".", "s", "h", "e", "l", "l", "m", "a", "n", "_", "t", "r", "a", "s", "h">>
Home == <<>>
TRASH_DIR == Home \o <<TrashName>>
SORT_MODES == <<"name", "size", "modified", "type">>

\* str.lower() on one character
LowerChar(c) ==
  CASE c = "A" -> "a" [] c = "B" -> "b" [] c = "C" -> "c" [] c = "D" -> "d"
    [] c = "Z" -> "z" [] OTHER -> c

Lower(s) == [i \in 1..Len(s) |-> LowerChar(s[i])]

\* str.endswith
EndsWith(s, suf) ==
  /\ Len(s) >= Len(suf)
  /\ SubSeq(s, Len(s) - Len(suf) + 1, Len(s)) = suf

\* str.startswith
StartsWith(s, pre) ==
  /\ Len(s) >= Len(pre)
  /\ SubSeq(s, 1, Len(pre)) = pre

\* str.rfind("."): the last index of a dot, 0 when there is none
RFindDot(s) ==
  LET dots == {i \in 1..Len(s) : s[i] = "."}
  IN IF dots = {} THEN 0 ELSE CHOOSE i \in dots : \A j \in dots : j <= i

\* PurePath.suffix: from the last dot, unless the dot is first or last
PathSuffix(name) ==
  LET i == RFindDot(name)
  IN IF 1 < i /\ i < Len(name) THEN SubSeq(name, i, Len(name)) ELSE <<>>

\* PurePath.stem: the name without its suffix
PathStem(name) ==
  LET i == RFindDot(name)
  IN IF 1 < i /\ i < Len(name) THEN SubSeq(name, 1, i - 1) ELSE name

\* ---------------------------- filesystem -------------------------------
\* A filesystem is a function from the existing paths to nodes
\* [kind, blob, mtime, readable]; the root always exists and is a directory.  A blob
\* is the content of a file: raw bytes, or an archive with its members.
\* Nodes made during the session carry the modification time Now.
Now == 3
NoBlob == [fmt |-> "none", bytes |-> 0, members |-> {}]
Raw(n) == [fmt |-> "raw", bytes |-> n, members |-> {}]
Zip(ms) == [fmt |-> "zip", bytes |-> 0, members |-> ms]
Tar(ms) == [fmt |-> "tar", bytes |-> 0, members |-> ms]
Gz(b) == [fmt |-> "gz", bytes |-> 0, members |-> {[rel |-> <<>>, dir |-> FALSE, blob |-> b]}]
DirNode == [kind |-> "dir", blob |-> NoBlob, mtime |-> Now, readable |-> TRUE]
FileNode(b) == [kind |-> "file", blob |-> b, mtime |-> Now, readable |-> TRUE]
OldDir(t) == [kind |-> "dir", blob |-> NoBlob, mtime |-> t, readable |-> TRUE]
OldFile(b, t) == [kind |-> "file", blob |-> b, mtime |-> t, readable |-> TRUE]
\* a directory whose mode denies the user its enumeration
LockedDir(t) == [kind |-> "dir", blob |-> NoBlob, mtime |-> t, readable |-> FALSE]

PathName(p) == p[Len(p)]
Parent(p) == IF p = <<>> THEN <<>> ELSE SubSeq(p, 1, Len(p) - 1)
IsPrefix(p, q) == Len(p) <= Len(q) /\ SubSeq(q, 1, Len(p)) = p

Exists(f, p) == p \in DOMAIN f
IsDir(f, p) == Exists(f, p) /\ f[p].kind = "dir"
IsFile(f, p) == Exists(f, p) /\ f[p].kind = "file"
Children(f, p) == {q \in DOMAIN f : Len(q) = Len(p) + 1 /\ IsPrefix(p, q)}
Under(f, p) == {q \in DOMAIN f : IsPrefix(p, q)}

Restrict(f, S) == [q \in S |-> f[q]]
Without(f, S) == Restrict(f, DOMAIN f \ S)
With(f, p, node) == [q \in DOMAIN f \cup {p} |-> IF q = p THEN node ELSE f[q]]
Rebase(q, src, dst) == dst \o SubSeq(q, Len(src) + 1, Len(q))

\* the tree rooted at src of f, placed at dst of g
Graft(g, f, src, dst) ==
  LET new == {Rebase(q, src, dst) : q \in Under(f, src)}
  IN [q \in DOMAIN g \cup new |->
        IF q \in new
          THEN f[CHOOSE r \in Under(f, src) : Rebase(r, src, dst) = q]
          ELSE g[q]]

\* the ancestors of p (p excluded, root included)
Ancestors(p) == {SubSeq(p, 1, k) : k \in 0..(Len(p) - 1)}

\* os.makedirs(p): every missing ancestor and p itself become directories
MakeDirs(f, p) ==
  [q \in DOMAIN f \cup Ancestors(p) \cup {p} |->
     IF q \in DOMAIN f THEN f[q] ELSE DirNode]

\* the outcome of a library call: ok, or the exception it raises (err),
\* with the filesystem it leaves behind
Ok(f) == [ok |-> TRUE, err |-> "", fs |-> f]
Err(f, e) == [ok |-> FALSE, err |-> e, fs |-> f]

TouchExistOk(f, p) ==
  IF Exists(f, p) THEN Ok(f)
  ELSE IF ~IsDir(f, Parent(p)) THEN Err(f, "OSError")
  ELSE Ok(With(f, p, FileNode(Raw(0))))

\* Path.touch(exist_ok=False)
PathTouch(f, p) ==
  IF Exists(f, p) THEN Err(f, "FileExistsError")
  ELSE IF ~IsDir(f, Parent(p)) THEN Err(f, "OSError")
  ELSE Ok(With(f, p, FileNode(Raw(0))))

\* Path.mkdir(parents=False, exist_ok=False)
PathMkdir(f, p) ==
  IF Exists(f, p) THEN Err(f, "FileExistsError")
  ELSE IF ~IsDir(f, Parent(p)) THEN Err(f, "OSError")
  ELSE Ok(With(f, p, DirNode))

\* Path.mkdir(parents=True, exist_ok=True)
PathMkdirParents(f, p) ==
  IF IsDir(f, p) THEN Ok(f)
  ELSE IF Exists(f, p) \/ \E q \in Ancestors(p) : IsFile(f, q)
    THEN Err(f, "FileExistsError")
  ELSE Ok(MakeDirs(f, p))

\* Path.unlink(missing_ok=True)
PathUnlink(f, p) ==
  IF ~Exists(f, p) THEN Ok(f)
  ELSE IF IsDir(f, p) THEN Err(f, "OSError")
  ELSE Ok(Without(f, {p}))

\* Path.rmdir()
PathRmdir(f, p) ==
  IF IsDir(f, p) /\ Children(f, p) = {} /\ p # <<>>
    THEN Ok(Without(f, {p}))
    ELSE Err(f, "OSError")

\* shutil.rmtree(p)
RmTree(f, p) ==
  IF IsDir(f, p) /\ p # <<>> THEN Ok(Without(f, Under(f, p))) ELSE Err(f, "OSError")

\* os.rename / Path.rename (POSIX): replaces an existing file by a file and
\* an existing empty directory by a directory
OsRename(f, src, dst) ==
  IF ~Exists(f, src) \/ src = <<>> \/ dst = <<>> THEN Err(f, "OSError")
  ELSE IF src = dst THEN Ok(f)
  ELSE IF ~IsDir(f, Parent(dst)) THEN Err(f, "OSError")
  ELSE IF IsPrefix(src, dst) THEN Err(f, "OSError")
  ELSE IF Exists(f, dst) /\ IsDir(f, src)
            /\ ~(IsDir(f, dst) /\ Children(f, dst) = {}) THEN Err(f, "OSError")
  ELSE IF Exists(f, dst) /\ IsFile(f, src) /\ IsDir(f, dst) THEN Err(f, "OSError")
  ELSE Ok(Graft(Without(f, Under(f, src) \cup {dst}), f, src, dst))

\* shutil.copytree(src, dst): dst must not exist, its parents are made
CopyTree(f, src, dst) ==
  IF ~IsDir(f, src) THEN Err(f, "OSError")
  ELSE IF Exists(f, dst) THEN Err(f, "FileExistsError")
  ELSE IF \E q \in Ancestors(dst) : IsFile(f, q) THEN Err(f, "OSError")
  ELSE Ok(Graft(MakeDirs(f, dst), f, src, dst))

\* shutil.copy2(src, dst): into dst when dst is a directory, overwriting
Copy2(f, src, dst) ==
  LET real == IF IsDir(f, dst) THEN dst \o <<PathName(src)>> ELSE dst
  IN IF ~IsFile(f, src) THEN Err(f, "OSError")
     ELSE IF real = src THEN Err(f, "SameFileError")
     ELSE IF IsDir(f, real) \/ ~IsDir(f, Parent(real)) THEN Err(f, "OSError")
     ELSE Ok(With(f, real, f[src]))

\* shutil.move(src, dst): into dst when dst is a directory; os.rename, and
\* when that raises, copy then delete
ShutilMove(f, src, dst) ==
  LET into == IsDir(f, dst)
      real == IF into THEN dst \o <<PathName(src)>> ELSE dst
      byRename == OsRename(f, src, real)
      byTree == CopyTree(f, src, real)
      byFile == Copy2(f, src, real)
  IN IF into /\ src = dst THEN OsRename(f, src, dst)
     ELSE IF into /\ Exists(f, real) THEN Err(f, "shutil.Error")
     ELSE IF byRename.ok THEN byRename
     ELSE IF IsDir(f, src)
       THEN IF IsPrefix(src, dst) THEN Err(f, "shutil.Error")
            ELSE IF byTree.ok THEN RmTree(byTree.fs, src)
            ELSE byTree
     ELSE IF byFile.ok THEN PathUnlink(byFile.fs, src)
     ELSE byFile

\* ----------------------------- archives --------------------------------
\* what zf.write stores for target t: a file by its bare name, a directory
\* by everything under it, relative to the directory's parent
ZipMembers(f, t) ==
  IF IsDir(f, t)
    THEN {[rel |-> Rebase(q, Parent(t), <<>>), dir |-> IsDir(f, q), blob |-> f[q].blob] :
            q \in Under(f, t) \ {t}}
    ELSE {[rel |-> <<PathName(t)>>, dir |-> FALSE, blob |-> f[t].blob]}

\* zipfile.ZipFile(out, "w") then zf.write for every target: opening
\* truncates out; a target that no longer exists raises, and the archive
\* is left holding the targets in written, those written before it
ZipWrite(f, out, targets, written) ==
  IF IsDir(f, out) \/ ~IsDir(f, Parent(out)) THEN Err(f, "OSError")
  ELSE LET opened == With(f, out, FileNode(Raw(0)))
           store(S) == With(f, out, FileNode(Zip(UNION {ZipMembers(opened, t) : t \in S})))
       IN IF \A t \in targets : Exists(opened, t)
            THEN Ok(store(targets))
            ELSE Err(store(written), "OSError")

\* ZipFile._extract_member / TarFile.extract of one member below dest
MemberFits(f, m, dest) ==
  LET target == dest \o m.rel
  IN /\ \A q \in Ancestors(target) : ~IsFile(f, q)
     /\ IF m.dir THEN ~IsFile(f, target) ELSE ~IsDir(f, target)

PutMember(f, m, dest) ==
  LET target == dest \o m.rel
      g == MakeDirs(f, Parent(target))
  IN IF m.dir THEN (IF IsDir(g, target) THEN g ELSE With(g, target, DirNode))
     ELSE With(g, target, FileNode(m.blob))

\* extractall(dest): the members one after another until one raises
RECURSIVE ExtractAll(_, _, _)
ExtractAll(f, ms, dest) ==
  IF ms = {} THEN Ok(f)
  ELSE LET m == CHOOSE x \in ms : \A y \in ms : Len(x.rel) <= Len(y.rel)
       IN IF MemberFits(f, m, dest)
            THEN ExtractAll(PutMember(f, m, dest), ms \ {m}, dest)
            ELSE Err(f, "OSError")

\* gzip.open(path) with open(dest, "wb"): dest is created before the
\* stream is read, so a file that is no gzip stream leaves dest empty
GunzipTo(f, path, dest) ==
  IF ~IsFile(f, path) THEN Err(f, "OSError")
  ELSE IF IsDir(f, dest) \/ ~IsDir(f, Parent(dest)) THEN Err(f, "OSError")
  ELSE IF f[path].blob.fmt # "gz" THEN Err(With(f, dest, FileNode(Raw(0))), "BadGzipFile")
  ELSE Ok(With(f, dest, FileNode(CHOOSE b \in {m.blob : m \in f[path].blob.members} : TRUE)))

\* is_archive(path)
is_archive(name) ==
  LET n == Lower(name)
  IN \/ EndsWith(n, <<".", "z", "i", "p">>)
     \/ EndsWith(n, <<".", "t", "a", "r">>)
     \/ EndsWith(n, <<".", "t", "a", "r", ".", "g", "z">>)
     \/ EndsWith(n, <<".", "t", "g", "z">>)
     \/ EndsWith(n, <<".", "t", "a", "r", ".", "b", "z", "2">>)
     \/ EndsWith(n, <<".", "t", "a", "r", ".", "x", "z">>)
     \/ EndsWith(n, <<".", "g", "z">>)
     \/ EndsWith(n, <<".", "b", "z", "2">>)

BranchWithoutElse(name) ==
  LET n == Lower(name)
  IN IF EndsWith(n, <<".", "z", "i", "p">>) THEN "zip"
     ELSE IF EndsWith(n, <<".", "t", "a", "r">>) THEN "tar"
     ELSE "gz"

\* the branch of _extract_archive taken for a name
ExtractBranch(name) ==
  LET n == Lower(name)
  IN IF EndsWith(n, <<".", "z", "i", "p">>) THEN "zip"
     ELSE IF \/ EndsWith(n, <<".", "t", "a", "r", ".", "g", "z">>)
             \/ EndsWith(n, <<".", "t", "g", "z">>)
             \/ EndsWith(n, <<".", "t", "a", "r", ".", "b", "z", "2">>)
             \/ EndsWith(n, <<".", "t", "a", "r", ".", "x", "z">>)
             \/ EndsWith(n, <<".", "t", "a", "r">>) THEN "tar"
     ELSE IF EndsWith(n, <<".", "g", "z">>) THEN "gz"
     ELSE "unsupported"

\* the try block of _extract_archive up to the refresh
ExtractTo(f, path, dest) ==
  LET br == ExtractBranch(PathName(path))
  IN IF br = "gz" THEN GunzipTo(f, path, dest)
     ELSE IF ~IsFile(f, path) \/ f[path].blob.fmt # br THEN Err(f, "OSError")
     ELSE ExtractAll(f, f[path].blob.members, dest)

\* ------------------------------ listing --------------------------------
\* the characters of the modelled names, in code-point order
Alphabet ==
  <<".", "1", "2", "3", "4", "A", "B", "C", "D", "Z", "_",
    "a", "b", "c", "d", "e", "g", "h", "i", "l", "m", "n", "p", "r", "s", "t", "v", "x",
    "z">>

OrdMap ==
  [c \in {Alphabet[i] : i \in 1..Len(Alphabet)} |->
     CHOOSE i \in 1..Len(Alphabet) : Alphabet[i] = c]

\* ord(c)
Ord(c) == OrdMap[c]

\* s < t for strings
RECURSIVE StrLess(_, _)
StrLess(s, t) ==
  IF t = <<>> THEN FALSE
  ELSE IF s = <<>> THEN TRUE
  ELSE IF Head(s) = Head(t) THEN StrLess(Tail(s), Tail(t))
  ELSE Ord(Head(s)) < Ord(Head(t))

\* Path.iterdir(): the children in the order the directory yields them,
\* the same at every call while the directory is unchanged
RECURSIVE SeqOf(_)
SeqOf(S) ==
  IF S = {} THEN <<>>
  ELSE LET x == CHOOSE y \in S : \A z \in S : z = y \/ StrLess(PathName(z), PathName(y))
       IN Append(SeqOf(S \ {x}), x)

IterDir(f, dir) == SeqOf(Children(f, dir))

\* st_size of a file
StSize(f, p) == IF f[p].blob.fmt = "raw" THEN f[p].blob.bytes ELSE Cardinality(f[p].blob.members) + 1

KeyWithoutKind(f, mode, p, q) ==
  CASE mode = "name" -> StrLess(Lower(PathName(p)), Lower(PathName(q)))
    [] mode = "size" -> (IF IsFile(f, p) THEN StSize(f, p) ELSE 0)
                          < (IF IsFile(f, q) THEN StSize(f, q) ELSE 0)
    [] mode = "modified" -> f[q].mtime < f[p].mtime
    [] mode = "type" -> StrLess(Lower(PathSuffix(PathName(p))) \o <<"/">> \o Lower(PathName(p)),
                                Lower(PathSuffix(PathName(q))) \o <<"/">> \o Lower(PathName(q)))
    [] OTHER -> FALSE

\* key(p) < key(q) for the sort key of _sort_entries under mode
KeyLess(f, mode, p, q) ==
  LET dp == IF IsDir(f, p) THEN 0 ELSE 1
      dq == IF IsDir(f, q) THEN 0 ELSE 1
      np == Lower(PathName(p))
      nq == Lower(PathName(q))
      sp == IF IsFile(f, p) THEN StSize(f, p) ELSE 0
      sq == IF IsFile(f, q) THEN StSize(f, q) ELSE 0
      xp == Lower(PathSuffix(PathName(p)))
      xq == Lower(PathSuffix(PathName(q)))
  IN IF dp # dq THEN dp < dq
     ELSE CASE mode = "name" -> StrLess(np, nq)
            [] mode = "size" -> sp < sq
            [] mode = "modified" -> f[q].mtime < f[p].mtime
            [] mode = "type" -> IF xp # xq THEN StrLess(xp, xq) ELSE StrLess(np, nq)
            [] OTHER -> FALSE

\* sorted(entries, key=...): stable insertion of each entry in turn
RECURSIVE Insert(_, _, _, _)
Insert(f, mode, sorted, e) ==
  IF sorted = <<>> THEN <<e>>
  ELSE LET last == sorted[Len(sorted)]
       IN IF KeyLess(f, mode, e, last)
            THEN Append(Insert(f, mode, SubSeq(sorted, 1, Len(sorted) - 1), e), last)
            ELSE Append(sorted, e)

RECURSIVE SortFrom(_, _, _, _)
SortFrom(f, mode, entries, acc) ==
  IF entries = <<>> THEN acc
  ELSE SortFrom(f, mode, Tail(entries), Insert(f, mode, acc, Head(entries)))

_sort_entries(f, mode, entries) == SortFrom(f, mode, entries, <<>>)

\* x in s for strings
Contains(s, x) ==
  \E i \in 0..(Len(s) - Len(x)) : SubSeq(s, i + 1, i + Len(x)) = x

RECURSIVE SelectSeqCased(_, _, _, _)
SelectSeqCased(entries, show, ftext, acc) ==
  IF entries = <<>> THEN acc
  ELSE LET e == Head(entries)
           keep == /\ (show \/ ~StartsWith(PathName(e), <<".">>))
                   /\ (ftext = <<>> \/ Contains(PathName(e), ftext))
       IN SelectSeqCased(Tail(entries), show, ftext, IF keep THEN Append(acc, e) ELSE acc)

\* the hidden filter, then the text filter, of refresh_table
RECURSIVE SelectSeqBy(_, _, _, _)
SelectSeqBy(entries, show, ftext, acc) ==
  IF entries = <<>> THEN acc
  ELSE LET e == Head(entries)
           keep == /\ (show \/ ~StartsWith(PathName(e), <<".">>))
                   /\ (ftext = <<>> \/ Contains(Lower(PathName(e)), Lower(ftext)))
       IN SelectSeqBy(Tail(entries), show, ftext, IF keep THEN Append(acc, e) ELSE acc)

\* the entries refresh_table displays: sort, hidden policy, text filter
Listing(f, dir, mode, show, ftext) ==
  SelectSeqBy(_sort_entries(f, mode, IterDir(f, dir)), show, ftext, <<>>)

\* refresh_table(): the table is cleared, then iterdir raises (the
\* directory is gone), or is denied (PermissionError, caught: a status
\* and return), or the rows are rebuilt.  msg is the status it sets.
refresh_table(f, dir, mode, show, ftext, rows) ==
  IF ~IsDir(f, dir)
    THEN [raised |-> TRUE, rows |-> rows, count |-> 0, msg |-> "Crashed"]
    ELSE IF ~f[dir].readable
      THEN [raised |-> FALSE, rows |-> rows, count |-> 0, msg |-> "Permission denied"]
      ELSE LET l == Listing(f, dir, mode, show, ftext)
           IN [raised |-> FALSE, rows |-> l, count |-> Len(l), msg |-> "Items"]

\* ------------------------------ git status -----------------------------
\* How a run of ["git", "status", "--porcelain"] ends: subprocess.run
\* raises (the tool is missing, the timeout expires, the working directory
\* cannot be entered), or the command exits with a return code and its
\* output.  A line of the output is its two status columns x, y, the path
\* as its segments and, for a rename, the path after " -> ".
Threw(exc) == [kind |-> "raise", exc |-> exc, code |-> 0, lines |-> <<>>]
Exited(code, lines) == [kind |-> "exit", exc |-> "", code |-> code, lines |-> lines]
PorcelainLine(x, y, path, dest) == [x |-> x, y |-> y, path |-> path, dest |-> dest]

\* Path(filepath).parts[0], filepath being the part after " -> " if any
LineName(l) == IF l.dest # <<>> THEN l.dest[1] ELSE l.path[1]

\* the if/elif chain over xy
LineCode(l) ==
  IF l.x = "?" /\ l.y = "?" THEN "?"
  ELSE IF l.x = "A" \/ l.y = "A" THEN "A"
  ELSE IF l.x = "M" \/ l.y = "M" THEN "M"
  ELSE IF l.x = "D" \/ l.y = "D" THEN "D"
  ELSE IF l.x = "R" \/ l.y = "R" THEN "R"
  ELSE "~"

\* status_map[name] = code, a dict as the set of its items
DictSet(map, name, code) ==
  {e \in map : e.name # name} \cup {[name |-> name, code |-> code]}

\* the loop over result.stdout.splitlines()
RECURSIVE StatusMap(_, _)
StatusMap(lines, map) ==
  IF lines = <<>> THEN map
  ELSE StatusMap(Tail(lines), DictSet(map, LineName(Head(lines)), LineCode(Head(lines))))

ProbeUncaught(run) ==
  IF run.kind = "raise" THEN [raised |-> TRUE, map |-> {}]
  ELSE IF run.code # 0 THEN [raised |-> FALSE, map |-> {}]
  ELSE [raised |-> FALSE, map |-> StatusMap(run.lines, {})]

\* get_git_status: the whole body is in try/except Exception
get_git_status(run) ==
  IF run.kind = "raise" THEN [raised |-> FALSE, map |-> {}]
  ELSE IF run.code # 0 THEN [raised |-> FALSE, map |-> {}]
  ELSE [raised |-> FALSE, map |-> StatusMap(run.lines, {})]

\* ----------------------------- undo stack ------------------------------
\* An undo entry is the description and the inverse closure with the paths
\* it captured: inverse names the closure's body, target/origin/moves its
\* default arguments.
Entry(kind, label, inverse, target, origin, moves) ==
  [kind |-> kind, label |-> label, inverse |-> inverse,
   target |-> target, origin |-> origin, moves |-> moves]

\* UndoStack.push
UndoPush(stack, e) == Append(stack, e)

UndoPopOldest(stack) ==
  IF stack = <<>> THEN [got |-> <<>>, rest |-> stack]
  ELSE [got |-> <<stack[1]>>, rest |-> Tail(stack)]

\* UndoStack.pop: the popped entry (none when empty) and the remaining stack
UndoPop(stack) ==
  IF stack = <<>> THEN [got |-> <<>>, rest |-> stack]
  ELSE [got |-> <<stack[Len(stack)]>>, rest |-> SubSeq(stack, 1, Len(stack) - 1)]

\* UndoStack.peek
UndoPeek(stack) == IF stack = <<>> THEN <<>> ELSE <<stack[Len(stack)].kind>>

UndoDeleteFirst(f, moves) ==
  IF moves = <<>> THEN Ok(f) ELSE ShutilMove(f, moves[1][1], moves[1][2])

\* _undo_delete: move every trashed path back, in order, until one raises
RECURSIVE UndoDelete(_, _)
UndoDelete(f, moves) ==
  IF moves = <<>> THEN Ok(f)
  ELSE LET r == ShutilMove(f, moves[1][1], moves[1][2])
       IN IF r.ok THEN UndoDelete(r.fs, Tail(moves)) ELSE r

\* the inverse closure of entry e, called on filesystem f
RunInverse(f, e) ==
  CASE e.inverse = "unlink" -> PathUnlink(f, e.target)
    [] e.inverse = "rmdir" -> PathRmdir(f, e.target)
    [] e.inverse = "rename" -> OsRename(f, e.target, e.origin)
    [] e.inverse = "move" -> ShutilMove(f, e.target, e.origin)
    [] e.inverse = "remove" ->
         IF IsDir(f, e.target) THEN RmTree(f, e.target) ELSE PathUnlink(f, e.target)
    [] e.inverse = "restore" -> UndoDelete(f, e.moves)

\* ------------------------------- state ---------------------------------
VARIABLES
  fs,           \* the filesystem below the home directory
  current_dir,  \* FileManagerApp.current_dir
  show_hidden,  \* FileManagerApp.show_hidden
  sort_mode,    \* FileManagerApp.sort_mode
  filter_text,  \* FileManagerApp.filter_text
  clipboard,    \* FileManagerApp.clipboard: {} for None, else {path}
  clipboard_op, \* FileManagerApp.clipboard_op
  row_entries,  \* FileManagerApp._row_entries
  row_count,    \* the DataTable's row_count
  selected,     \* FileManagerApp._selected
  undo,         \* FileManagerApp._undo._stack
  status,       \* the StatusBar message (its kind)
  clock,        \* timestamps datetime.now() has handed to action_delete
  git_status,   \* FileManagerApp._git_status
  git_run,      \* how the last run of the git status command ended
  steps,        \* handlers run so far
  last          \* the handler that ran last and how its mutation ended

vars == <<fs, current_dir, show_hidden, sort_mode, filter_text, clipboard, clipboard_op,
          row_entries, row_count, selected, undo, status, clock, git_status, git_run,
          steps, last>>

view == <<show_hidden, sort_mode, filter_text>>

\* the home directory the session starts in
InitFs ==
  (<<>> :> OldDir(0)) @@ (<<nA>> :> OldFile(Raw(1), 1)) @@ (<<nB>> :> OldFile(Raw(2), 2))
    @@ (<<nD>> :> OldDir(1)) @@ (<<nD, nA>> :> OldDir(2)) @@ (<<nD, nB>> :> OldFile(Raw(3), 0))

\* what a modal returns: a typed name, relative to the current directory or
\* absolute (pathlib's "/" keeps an absolute right operand)
Rel(n) == [abs |-> FALSE, name |-> n]
Abs(n) == [abs |-> TRUE, name |-> n]
Typed == {Rel(nB), Rel(nC), Abs(nC)}
Join(dir, t) == IF t.abs THEN <<t.name>> ELSE dir \o <<t.name>>

Did(op, ok, err, ran) == [op |-> op, ok |-> ok, err |-> err, ran |-> ran]

\* the state once the app is mounted in the home directory and the listing
\* has been refreshed (action_refresh)
Init ==
  /\ fs = InitFs
  /\ current_dir = Home
  /\ show_hidden = FALSE
  /\ sort_mode = "name"
  /\ filter_text = <<>>
  /\ clipboard = {}
  /\ clipboard_op = "copy"
  /\ row_entries = Listing(InitFs, Home, "name", FALSE, <<>>)
  /\ row_count = Len(Listing(InitFs, Home, "name", FALSE, <<>>))
  /\ selected = {}
  /\ undo = <<>>
  /\ status = "Refreshed"
  /\ clock = 0
  /\ steps = 0
  /\ git_status = {}
  /\ git_run = Exited(128, <<>>)
  /\ last = Did("mount", FALSE, FALSE, <<>>)

\* --------------------------- handler pieces ----------------------------
\* a handler runs while the app is alive; an exception no handler catches
\* ends the app
Alive == status # "Crashed"

DepthOK(f) == \A p \in DOMAIN f : Len(p) <= MaxDepth

\* selected_entry(): the entry at cursor row r, {} for None
CursorRows == IF row_count = 0 THEN {0} ELSE 1..row_count
selected_entry(r) ==
  IF r < 1 \/ row_count = 0 \/ r > Len(row_entries) THEN {} ELSE {row_entries[r]}

\* _effective_targets()
_effective_targets(r) == IF selected # {} THEN selected ELSE selected_entry(r)

\* refresh_table() on filesystem f with current directory dir
Refresh(f, dir) == refresh_table(f, dir, sort_mode, show_hidden, filter_text, row_entries)

\* a handler that only reports: nothing but the status changes
Report(op, msg) ==
  /\ status' = msg
  /\ last' = Did(op, FALSE, TRUE, <<>>)
  /\ steps' = steps + 1
  /\ UNCHANGED <<git_status, git_run>>
  /\ UNCHANGED <<fs, current_dir, view, clipboard, clipboard_op, row_entries, row_count,
                 selected, undo, clock>>

SelectionKept(sel) == sel

\* self._selected.clear() in watch_current_dir
SelectedCleared(sel) == {}

\* a navigation as the last handler: dropped is the marks it cleared
Went(op, raised, dropped) ==
  [op |-> op, ok |-> FALSE, err |-> raised, ran |-> <<>>, dropped |-> dropped]

\* the lines git prints in the repository of the session, and the outputs
\* of up to two of them
nGit == <<".", "g", "i", "t">>
GitLines ==
  { PorcelainLine(" ", "M", <<nD, nA>>, <<>>),
    PorcelainLine("?", "?", <<nD, nB>>, <<>>),
    PorcelainLine(" ", "D", <<nD, nC>>, <<>>),
    PorcelainLine("A", "M", <<nA>>, <<>>),
    PorcelainLine("R", " ", <<nB>>, <<nD, nB>>),
    PorcelainLine("U", "U", <<nC>>, <<>>) }
GitOutputs == {<<>>} \cup {<<l>> : l \in GitLines} \cup {<<l, m>> : l, m \in GitLines}

\* the ways the run can end in directory dir of f: outside a repository
\* git exits with 128, inside one anything may happen
GitRun(f, dir) ==
  IF ~IsDir(f, dir) THEN {Threw("FileNotFoundError")}
  ELSE IF \A a \in Ancestors(dir) \cup {dir} : ~IsDir(f, a \o <<nGit>>)
    THEN {Exited(128, <<>>)}
    ELSE {Threw("FileNotFoundError"), Threw("TimeoutExpired"), Exited(1, <<>>),
          Exited(128, <<>>)} \cup {Exited(0, out) : out \in GitOutputs}

\* watch_current_dir(new_dir): runs when current_dir is assigned a new value
Navigate(op, dir) ==
  \E run \in GitRun(fs, dir) : \E g \in {get_git_status(run)} : \E rf \in {Refresh(fs, dir)} :
     /\ current_dir' = dir
     /\ selected' = SelectedCleared(selected)
     /\ git_run' = run
     /\ git_status' = IF g.raised THEN git_status ELSE g.map
     /\ row_entries' = IF g.raised THEN row_entries ELSE rf.rows
     /\ row_count' = IF g.raised THEN row_count ELSE rf.count
     /\ status' = IF g.raised THEN "Crashed" ELSE rf.msg
     /\ last' = Went(op, g.raised \/ rf.raised, selected)
     /\ steps' = steps + 1
     /\ UNCHANGED <<fs, view, clipboard, clipboard_op, undo, clock>>

\* self._undo.push is the last statement of the handler's success path:
\* it runs when nothing before it raised
PushAlways(stack, done, e) == UndoPush(stack, e)

PushAfter(stack, done, e) == IF done THEN UndoPush(stack, e) ELSE stack

\* dst == src in action_paste_item
NeverSame(src, dst) == FALSE

SameLocation(src, dst) == dst = src

\* the try block shared by new_file, new_dir, rename, archive and extract:
\* the mutation (outcome r), then refresh_table(), the success message and
\* the push; an exception at any point goes to the except clause, which
\* only reports.  sel is the selection the handler leaves on success, ran
\* the paths the handler worked on: the archive written and its targets,
\* or the archive extracted, its destination and what was there before.
TryMutateOn(op, outcome, okMsg, errMsg, entry, sel, ran) ==
  \E r \in {outcome} : \E rf \in {Refresh(r.fs, current_dir)} :
     /\ DepthOK(r.fs)
     /\ fs' = r.fs
     /\ IF r.ok
          THEN /\ row_entries' = rf.rows
               /\ row_count' = rf.count
               /\ selected' = sel
               /\ status' = IF rf.raised THEN "Error" ELSE okMsg
               /\ undo' = PushAfter(undo, ~rf.raised, entry)
               /\ last' = Did(op, TRUE, rf.raised, ran)
          ELSE /\ status' = errMsg
               /\ undo' = PushAfter(undo, FALSE, entry)
               /\ last' = Did(op, FALSE, TRUE, ran)
               /\ UNCHANGED <<row_entries, row_count, selected>>
     /\ steps' = steps + 1
     /\ UNCHANGED <<git_status, git_run>>
     /\ UNCHANGED <<current_dir, view, clipboard, clipboard_op, clock>>

TryMutate(op, outcome, okMsg, errMsg, entry, sel) ==
  TryMutateOn(op, outcome, okMsg, errMsg, entry, sel, <<>>)

\* ------------------------------ handlers -------------------------------
\* on_key, Space: mark or unmark the cursor entry, then refresh
on_key(r) ==
  /\ Alive
  /\ selected_entry(r) # {}
  /\ LET e == CHOOSE x \in selected_entry(r) : TRUE
         sel == IF e \in selected THEN selected \ {e} ELSE selected \cup {e}
     IN \E rf \in {Refresh(fs, current_dir)} :
        /\ Cardinality(sel) <= MaxSel
        /\ selected' = sel
        /\ row_entries' = rf.rows
        /\ row_count' = rf.count
        /\ status' = rf.msg
        /\ last' = Did("select", FALSE, rf.raised, <<>>)
  /\ steps' = steps + 1
  /\ UNCHANGED <<git_status, git_run>>
  /\ UNCHANGED <<fs, current_dir, view, clipboard, clipboard_op, undo, clock>>

\* on_dir_selected: a directory picked in the tree
on_dir_selected(dir) ==
  /\ Alive
  /\ IsDir(fs, dir)
  /\ dir # current_dir
  /\ Navigate("tree", dir)

\* on_row_selected: Enter on a row that is a directory
on_row_selected(r) ==
  /\ Alive
  /\ \E e \in selected_entry(r) : IsDir(fs, e) /\ e # current_dir /\ Navigate("open", e)

\* action_go_up
action_go_up ==
  /\ Alive
  /\ Parent(current_dir) # current_dir
  /\ Navigate("go_up", Parent(current_dir))

\* action_goto: a path typed into the modal
action_goto(dir) ==
  /\ Alive
  /\ IF IsDir(fs, dir)
       THEN dir # current_dir /\ Navigate("goto", dir)
       ELSE Report("goto", "Not a directory")

\* a handler that redisplays as the last one: before is the row sequence
\* it replaced
Shown(op, raised, before) ==
  [op |-> op, ok |-> FALSE, err |-> raised, ran |-> <<>>, before |-> before]

\* refresh_table() called outside any try, under the view settings the
\* handler has just assigned; msg is the status the handler sets after it,
\* "Items" when it leaves the one refresh_table set
Redisplay(op, show, mode, ftext, msg) ==
  \E rf \in {refresh_table(fs, current_dir, mode, show, ftext, row_entries)} :
     /\ show_hidden' = show
     /\ sort_mode' = mode
     /\ filter_text' = ftext
     /\ row_entries' = rf.rows
     /\ row_count' = rf.count
     /\ status' = IF rf.raised \/ msg = "Items" THEN rf.msg ELSE msg
     /\ last' = Shown(op, rf.raised, row_entries)
     /\ UNCHANGED <<git_status, git_run>>
     /\ steps' = steps + 1
     /\ UNCHANGED <<fs, current_dir, clipboard, clipboard_op, selected, undo, clock>>

\* action_refresh: the probe, refresh_table(), the status
action_refresh ==
  /\ Alive
  /\ \E run \in GitRun(fs, current_dir) : \E g \in {get_git_status(run)} :
     \E rf \in {Refresh(fs, current_dir)} :
       /\ git_run' = run
       /\ git_status' = IF g.raised THEN git_status ELSE g.map
       /\ row_entries' = IF g.raised THEN row_entries ELSE rf.rows
       /\ row_count' = IF g.raised THEN row_count ELSE rf.count
       /\ status' = IF g.raised \/ rf.raised THEN "Crashed" ELSE "Refreshed"
       /\ last' = Shown("refresh", g.raised \/ rf.raised, row_entries)
       /\ steps' = steps + 1
       /\ UNCHANGED <<fs, current_dir, view, clipboard, clipboard_op, selected, undo, clock>>

\* action_toggle_hidden
action_toggle_hidden ==
  /\ Alive
  /\ Redisplay("toggle_hidden", ~show_hidden, sort_mode, filter_text, "Items")

\* SORT_MODES[(idx + 1) % len(SORT_MODES)]
NextSortMode(mode) ==
  LET idx == CHOOSE i \in 1..Len(SORT_MODES) : SORT_MODES[i] = mode
  IN SORT_MODES[(idx % Len(SORT_MODES)) + 1]

\* action_cycle_sort: watch_sort_mode refreshes, then the status is set
action_cycle_sort ==
  /\ Alive
  /\ Redisplay("cycle_sort", show_hidden, NextSortMode(sort_mode), filter_text, "Sort")

\* on_filter_changed: the text of the filter input; watch_filter_text
\* refreshes when the text is a new one
on_filter_changed(text) ==
  /\ Alive
  /\ text # filter_text
  /\ Redisplay("filter", show_hidden, sort_mode, text, "Items")

\* action_clear_filter with the filter input shown and a filter set
action_clear_filter ==
  /\ Alive
  /\ filter_text # <<>>
  /\ Redisplay("clear_filter", show_hidden, sort_mode, <<>>, "Items")

\* action_new_file, with the name the modal returned
action_new_file(t) ==
  /\ Alive
  /\ LET target == Join(current_dir, t)
         r == PathTouch(fs, target)
     IN TryMutate("new_file", r, "Created file",
                  IF r.err = "FileExistsError" THEN "File already exists" ELSE "Error",
                  Entry("create", t.name, "unlink", target, <<>>, <<>>), selected)

\* action_new_dir, with the name the modal returned
action_new_dir(t) ==
  /\ Alive
  /\ LET target == Join(current_dir, t)
         r == PathMkdir(fs, target)
     IN TryMutate("new_dir", r, "Created directory",
                  IF r.err = "FileExistsError" THEN "Directory already exists" ELSE "Error",
                  Entry("mkdir", t.name, "rmdir", target, <<>>, <<>>), selected)

\* action_rename of the cursor entry, with the name the modal returned
action_rename(r, t) ==
  /\ Alive
  /\ IF selected_entry(r) = {} THEN Report("rename", "No item selected")
     ELSE LET entry == CHOOSE x \in selected_entry(r) : TRUE
              target == Join(current_dir, t)
          IN /\ ~(~t.abs /\ t.name = PathName(entry))
             /\ TryMutate("rename", OsRename(fs, entry, target), "Renamed", "Error",
                          Entry("rename", PathName(entry), "rename", target, entry, <<>>),
                          selected)

\* the timestamp prefix datetime.now().strftime gives the k-th trashed entry
TsToken(k) == <<"1", "2", "3", "4">>[k]
TrashPath(k, entry) == TRASH_DIR \o << <<TsToken(k), "_">> \o PathName(entry) >>

\* list(set): the orders in which a set can be iterated
Orders(S) ==
  {o \in [1..Cardinality(S) -> S] : \A i, j \in 1..Cardinality(S) : o[i] = o[j] => i = j}

RECURSIVE DeleteLoopGoesOn(_, _, _, _)
DeleteLoopGoesOn(f, order, k, moves) ==
  IF order = <<>> THEN [ok |-> TRUE, fs |-> f, moves |-> moves, used |-> k, failed |-> <<>>]
  ELSE LET entry == Head(order)
           r == ShutilMove(f, entry, TrashPath(k + 1, entry))
           rest == DeleteLoopGoesOn(r.fs, Tail(order), k + 1,
                     IF r.ok THEN Append(moves, <<TrashPath(k + 1, entry), entry>>) ELSE moves)
       IN IF r.ok THEN rest
          ELSE [ok |-> FALSE, fs |-> rest.fs, moves |-> rest.moves, used |-> rest.used,
                failed |-> entry]

\* the for loop of action_delete's handle: move each target to the trash
\* until one move raises; moves are the (trash_path, entry) pairs recorded,
\* failed the entry whose move raised
RECURSIVE DeleteLoop(_, _, _, _)
DeleteLoop(f, order, k, moves) ==
  IF order = <<>> THEN [ok |-> TRUE, fs |-> f, moves |-> moves, used |-> k, failed |-> <<>>]
  ELSE LET entry == Head(order)
           r == ShutilMove(f, entry, TrashPath(k + 1, entry))
       IN IF r.ok
            THEN DeleteLoop(r.fs, Tail(order), k + 1,
                            Append(moves, <<TrashPath(k + 1, entry), entry>>))
            ELSE [ok |-> FALSE, fs |-> r.fs, moves |-> moves, used |-> k + 1,
                  failed |-> entry]

\* a failed handler as the last one: named is the entry its message names
Failed(op, name) ==
  [op |-> op, ok |-> FALSE, err |-> TRUE, ran |-> <<>>, named |-> name]

\* action_delete of the effective targets, confirmed in the modal
action_delete(r, order) ==
  /\ Alive
  /\ IF _effective_targets(r) = {} THEN Report("delete", "No item selected")
     ELSE LET label == IF Len(order) = 1 THEN PathName(order[1]) ELSE <<"i", "t", "e", "m", "s">>
          IN \E mk \in {PathMkdirParents(fs, TRASH_DIR)} :
             \E d \in {DeleteLoop(mk.fs, order, clock, <<>>)} :
             \E rf \in {Refresh(d.fs, current_dir)} :
             /\ order \in Orders(_effective_targets(r))
             /\ clock + Len(order) <= MaxClock
             /\ IF ~mk.ok
                  THEN /\ status' = "Crashed"
                       /\ last' = Did("delete", FALSE, TRUE, <<>>)
                       /\ UNCHANGED <<fs, row_entries, row_count, selected, undo, clock>>
                  ELSE /\ DepthOK(d.fs)
                       /\ fs' = d.fs
                       /\ clock' = d.used
                       /\ undo' = PushAfter(undo, d.ok /\ ~rf.raised,
                                             Entry("delete", label, "restore", <<>>, <<>>, d.moves))
                       /\ IF ~d.ok
                            THEN /\ status' = "Error deleting"
                                 /\ last' = Failed("delete", PathName(d.failed))
                                 /\ UNCHANGED <<row_entries, row_count, selected>>
                            ELSE /\ selected' = {}
                                 /\ row_entries' = rf.rows
                                 /\ row_count' = rf.count
                                 /\ last' = Did("delete", TRUE, rf.raised, <<>>)
                                 /\ status' = IF rf.raised THEN "Crashed" ELSE "Deleted"
             /\ steps' = steps + 1
             /\ UNCHANGED <<git_status, git_run>>
             /\ UNCHANGED <<current_dir, view, clipboard, clipboard_op>>

\* action_copy_item: watch_clipboard reports with the operation kind still
\* in place when the clipboard path changes
action_copy_item(r) ==
  /\ Alive
  /\ IF selected_entry(r) = {} THEN Report("copy", "No item selected")
     ELSE /\ clipboard' = selected_entry(r)
          /\ clipboard_op' = "copy"
          /\ status' = IF clipboard = selected_entry(r) THEN status
                       ELSE IF clipboard_op = "cut" THEN "Cut" ELSE "Copied"
          /\ last' = Did("copy", FALSE, FALSE, <<>>)
          /\ steps' = steps + 1
          /\ UNCHANGED <<git_status, git_run>>
          /\ UNCHANGED <<fs, current_dir, view, row_entries, row_count, selected, undo, clock>>

\* action_cut_item
action_cut_item(r) ==
  /\ Alive
  /\ IF selected_entry(r) = {} THEN Report("cut", "No item selected")
     ELSE /\ clipboard' = selected_entry(r)
          /\ clipboard_op' = "cut"
          /\ status' = "Cut"
          /\ last' = Did("cut", FALSE, FALSE, <<>>)
          /\ steps' = steps + 1
          /\ UNCHANGED <<git_status, git_run>>
          /\ UNCHANGED <<fs, current_dir, view, row_entries, row_count, selected, undo, clock>>

ClipboardCleared(clip, cut) == {}

\* self.clipboard after a successful paste: None in the cut branch only
ClipboardAfterPaste(clip, cut) == IF cut THEN {} ELSE clip

\* action_paste_item: the push comes before refresh_table(), inside the try
action_paste_item ==
  /\ Alive
  /\ IF clipboard = {} THEN Report("paste", "Clipboard is empty")
     ELSE LET src == CHOOSE x \in clipboard : TRUE
              dst == current_dir \o <<PathName(src)>>
              cut == clipboard_op = "cut"
              entry == IF cut THEN Entry("move", PathName(src), "move", dst, src, <<>>)
                       ELSE Entry("copy", PathName(src), "remove", dst, <<>>, <<>>)
          IN IF SameLocation(src, dst) THEN Report("paste", "Same location")
             ELSE \E r \in {IF cut THEN ShutilMove(fs, src, dst)
                            ELSE IF IsDir(fs, src) THEN CopyTree(fs, src, dst)
                            ELSE Copy2(fs, src, dst)} :
                  \E rf \in {Refresh(r.fs, current_dir)} :
                  /\ DepthOK(r.fs)
                  /\ fs' = r.fs
                  /\ undo' = PushAfter(undo, r.ok, entry)
                  /\ IF r.ok
                       THEN /\ clipboard' = ClipboardAfterPaste(clipboard, cut)
                            /\ row_entries' = rf.rows
                            /\ row_count' = rf.count
                            /\ status' = IF rf.raised THEN "Error" ELSE rf.msg
                            /\ last' = Did("paste", TRUE, rf.raised, <<>>)
                       ELSE /\ status' = "Error"
                            /\ last' = Did("paste", FALSE, TRUE, <<>>)
                            /\ UNCHANGED <<clipboard, row_entries, row_count>>
                  /\ steps' = steps + 1
                  /\ UNCHANGED <<git_status, git_run>>
                  /\ UNCHANGED <<current_dir, view, clipboard_op, selected, clock>>

UndoKeepsFailed(stack, e, ok) == IF ok THEN stack ELSE Append(stack, e)

\* what action_undo leaves on the stack once the popped entry's inverse has
\* run: the except clause only reports
AfterInverse(stack, e, ok) == stack

\* action_undo: pop, run the inverse, refresh
action_undo ==
  /\ Alive
  /\ \E op \in {UndoPop(undo)} :
        IF op.got = <<>>
          THEN /\ status' = "Nothing to undo"
               /\ last' = Did("undo", FALSE, FALSE, IF last.op = "undo" THEN last.ran ELSE <<>>)
               /\ UNCHANGED <<fs, row_entries, row_count, undo>>
          ELSE \E r \in {RunInverse(fs, op.got[1])} :
               \E rf \in {Refresh(r.fs, current_dir)} :
                  /\ DepthOK(r.fs)
                  /\ undo' = AfterInverse(op.rest, op.got[1], r.ok /\ ~rf.raised)
                  /\ fs' = r.fs
                  /\ last' = Did("undo", r.ok, ~r.ok \/ rf.raised,
                                 IF last.op = "undo" THEN last.ran \o op.got ELSE op.got)
                  /\ IF r.ok
                       THEN /\ row_entries' = rf.rows
                            /\ row_count' = rf.count
                            /\ status' = IF rf.raised THEN "Undo failed" ELSE "Undone"
                       ELSE /\ status' = "Undo failed"
                            /\ UNCHANGED <<row_entries, row_count>>
  /\ steps' = steps + 1
  /\ UNCHANGED <<git_status, git_run>>
  /\ UNCHANGED <<current_dir, view, clipboard, clipboard_op, selected, clock>>

\* _extract_archive(path)
_extract_archive(path) ==
  LET dest == current_dir \o <<PathStem(PathName(path))>>
  IN IF ExtractBranch(PathName(path)) = "unsupported"
       THEN Report("extract", "Unsupported archive format")
       ELSE TryMutateOn("extract", ExtractTo(fs, path, dest), "Extracted", "Extraction error",
                        Entry("extract", PathName(path), "remove", dest, <<>>, <<>>), selected,
                        <<path, dest, Under(fs, dest)>>)

\* the name the archive modal returns: its default, or a typed one
ArchiveNames(targets) ==
  {IF Cardinality(targets) = 1
     THEN PathStem(PathName(CHOOSE x \in targets : TRUE))
     ELSE <<"a", "r", "c", "h", "i", "v", "e">>, nC}

\* action_archive: extract the cursor entry when it is an archive and
\* nothing is marked, else zip the effective targets under the given name
action_archive(r, result, written) ==
  /\ Alive
  /\ LET entry == selected_entry(r)
         targets == _effective_targets(r)
         name == IF EndsWith(result, ZipSuffix) THEN result ELSE result \o ZipSuffix
         out_path == current_dir \o <<name>>
     IN IF entry # {} /\ is_archive(PathName(CHOOSE x \in entry : TRUE)) /\ selected = {}
          THEN /\ result = nC /\ written = {}
               /\ _extract_archive(CHOOSE x \in entry : TRUE)
          ELSE IF targets = {}
            THEN result = nC /\ written = {} /\ Report("archive", "No items selected to zip")
          ELSE /\ result \in ArchiveNames(targets)
               /\ written \subseteq {x \in targets : Exists(fs, x)}
               /\ (\A x \in targets : Exists(fs, x)) => written = targets
               /\ written # targets \/ \A x \in targets : Exists(fs, x)
               /\ TryMutateOn("archive", ZipWrite(fs, out_path, targets, written),
                              "Created archive", "Archive error",
                              Entry("zip", name, "unlink", out_path, <<>>, <<>>), {},
                              <<out_path>> \o SeqOf(targets))

\* the whole engine, with every input, for MaxSteps handlers
Next ==
  \/ steps < MaxSteps /\ \E r \in CursorRows : on_key(r)
  \/ steps < MaxSteps /\ \E r \in CursorRows : on_row_selected(r)
  \/ steps < MaxSteps /\ action_go_up
  \/ steps < MaxSteps /\ \E t \in Typed : action_new_file(t)
  \/ steps < MaxSteps /\ \E t \in Typed : action_new_dir(t)
  \/ steps < MaxSteps /\ \E r \in CursorRows, t \in Typed : action_rename(r, t)
  \/ steps < MaxSteps /\ \E r \in CursorRows : \E o \in Orders(_effective_targets(r)) :
       action_delete(r, o)
  \/ steps < MaxSteps /\ \E r \in CursorRows : action_copy_item(r)
  \/ steps < MaxSteps /\ \E r \in CursorRows : action_cut_item(r)
  \/ steps < MaxSteps /\ action_paste_item
  \/ steps < MaxSteps /\ action_undo
  \/ steps < MaxSteps /\ \E r \in CursorRows : \E w \in SUBSET _effective_targets(r) :
       \E n \in ArchiveNames(_effective_targets(r)) \cup {nC} : action_archive(r, n, w)

Spec == Init /\ [][Next]_vars

\* creating, renaming and undoing in one directory, for MaxLifoSteps handlers
NextLifo ==
  \/ steps < MaxLifoSteps /\ \E t \in Typed : action_new_file(t)
  \/ steps < MaxLifoSteps /\ \E t \in Typed : action_new_dir(t)
  \/ steps < MaxLifoSteps /\ \E r \in CursorRows : action_rename(r, Rel(nC))
  \/ steps < MaxLifoSteps /\ action_undo

SpecLifo == Init /\ [][NextLifo]_vars

\* creating and undoing while moving between directories, for MaxGoneSteps
\* handlers
NextGone ==
  \/ steps < MaxGoneSteps /\ \E r \in CursorRows : on_row_selected(r)
  \/ steps < MaxGoneSteps /\ action_go_up
  \/ steps < MaxGoneSteps /\ \E t \in Typed : action_new_file(t)
  \/ steps < MaxGoneSteps /\ \E t \in Typed : action_new_dir(t)
  \/ steps < MaxGoneSteps /\ action_undo

SpecGone == Init /\ [][NextGone]_vars

\* marking, renaming, deleting and undoing, for MaxTrashSteps handlers
NextTrash ==
  \/ steps < MaxTrashSteps /\ \E r \in CursorRows : on_key(r)
  \/ steps < MaxTrashSteps /\ \E r \in CursorRows : on_row_selected(r)
  \/ steps < MaxTrashSteps /\ \E r \in CursorRows : action_rename(r, Rel(nC))
  \/ steps < MaxTrashSteps /\ \E r \in CursorRows : \E o \in Orders(_effective_targets(r)) :
       action_delete(r, o)
  \/ steps < MaxTrashSteps /\ action_undo

SpecTrash == Init /\ [][NextTrash]_vars

\* copying, cutting, pasting and undoing across directories, for
\* MaxClipSteps handlers
NextClip ==
  \/ steps < MaxClipSteps /\ \E r \in CursorRows : on_row_selected(r)
  \/ steps < MaxClipSteps /\ action_go_up
  \/ steps < MaxClipSteps /\ \E r \in CursorRows : action_copy_item(r)
  \/ steps < MaxClipSteps /\ \E r \in CursorRows : action_cut_item(r)
  \/ steps < MaxClipSteps /\ action_paste_item
  \/ steps < MaxClipSteps /\ action_undo

SpecClip == Init /\ [][NextClip]_vars

\* the paths typed into the go-to modal
GotoPaths == {Home, <<nD>>, <<nD, nA>>, <<nA>>}

\* marking entries and moving between directories in the four ways, for
\* MaxNavSteps handlers
NextNav ==
  \/ steps < MaxNavSteps /\ \E r \in CursorRows : on_key(r)
  \/ steps < MaxNavSteps /\ \E dir \in {p \in DOMAIN fs : IsDir(fs, p)} : on_dir_selected(dir)
  \/ steps < MaxNavSteps /\ \E r \in CursorRows : on_row_selected(r)
  \/ steps < MaxNavSteps /\ action_go_up
  \/ steps < MaxNavSteps /\ \E dir \in GotoPaths : action_goto(dir)

SpecNav == Init /\ [][NextNav]_vars

\* a home directory that holds archives: a zip, a gzipped tar, a gzip
\* stream and a bzip2 file, and a directory named as the zip's stem
nZip == <<"a", ".", "z", "i", "p">>
nTarGz == <<"d", ".", "t", "a", "r", ".", "g", "z">>
nGz == <<"n", ".", "g", "z">>
nBz2 == <<"b", ".", "b", "z", "2">>

ArchFs ==
  (<<>> :> OldDir(0))
    @@ (<<nZip>> :> OldFile(Zip({[rel |-> <<nA>>, dir |-> FALSE, blob |-> Raw(1)]}), 1))
    @@ (<<nTarGz>> :> OldFile(Tar({[rel |-> <<nB>>, dir |-> FALSE, blob |-> Raw(2)]}), 2))
    @@ (<<nGz>> :> OldFile(Gz(Raw(3)), 1))
    @@ (<<nBz2>> :> OldFile(Raw(2), 0))
    @@ (<<nA>> :> OldDir(1)) @@ (<<nA, nB>> :> OldFile(Raw(1), 2))
    @@ (<<nA, nD>> :> OldDir(2)) @@ (<<nA, nD, nB>> :> OldFile(Raw(2), 1))

InitArch ==
  /\ fs = ArchFs
  /\ current_dir = Home
  /\ show_hidden = FALSE
  /\ sort_mode = "name"
  /\ filter_text = <<>>
  /\ clipboard = {}
  /\ clipboard_op = "copy"
  /\ row_entries = Listing(ArchFs, Home, "name", FALSE, <<>>)
  /\ row_count = Len(Listing(ArchFs, Home, "name", FALSE, <<>>))
  /\ selected = {}
  /\ undo = <<>>
  /\ status = "Refreshed"
  /\ clock = 0
  /\ steps = 0
  /\ git_status = {}
  /\ git_run = Exited(128, <<>>)
  /\ last = Did("mount", FALSE, FALSE, <<>>)

\* marking, archiving, extracting and undoing among the archives, for
\* MaxArchSteps handlers
NextArch ==
  \/ steps < MaxArchSteps /\ \E r \in CursorRows : on_key(r)
  \/ steps < MaxArchSteps /\ \E r \in CursorRows : \E w \in SUBSET _effective_targets(r) :
       \E n \in ArchiveNames(_effective_targets(r)) \cup {nC} : action_archive(r, n, w)
  \/ steps < MaxArchSteps /\ action_undo

SpecArch == InitArch /\ [][NextArch]_vars

\* deleting the cursor entry, extracting and undoing across directories of
\* that home, for MaxRestoreSteps handlers
NextRestore ==
  \/ steps < MaxRestoreSteps /\ \E r \in CursorRows : on_row_selected(r)
  \/ steps < MaxRestoreSteps /\ action_go_up
  \/ steps < MaxRestoreSteps /\ \E r \in CursorRows : \E o \in Orders(_effective_targets(r)) :
       action_delete(r, o)
  \/ steps < MaxRestoreSteps /\ \E r \in CursorRows : action_archive(r, nC, {})
  \/ steps < MaxRestoreSteps /\ action_undo

SpecRestore == InitArch /\ [][NextRestore]_vars

\* a home directory with hidden entries, names in both cases, suffixes,
\* sizes and modification times that order differently, and a file named
\* .gz that holds no gzip stream
nHid == <<".", "h">>
nHidDir == <<".", "g">>
nUpB == <<"B">>
nUpA == <<"A">>
nAz == <<"a", ".", "z">>
nBc == <<"b", ".", "c">>
nBad == <<"n", ".", "g", "z">>

ViewFs ==
  (<<>> :> OldDir(0))
    @@ (<<nHid>> :> OldFile(Raw(1), 2)) @@ (<<nHidDir>> :> OldDir(0))
    @@ (<<nUpB>> :> OldDir(0)) @@ (<<nUpB, nA>> :> OldFile(Raw(1), 1))
    @@ (<<nUpA>> :> OldFile(Raw(0), 2))
    @@ (<<nAz>> :> OldFile(Raw(3), 1)) @@ (<<nBc>> :> OldFile(Raw(1), 0))
    @@ (<<nD>> :> OldDir(2))
    @@ (<<nBad>> :> OldFile(Raw(2), 1))

\* the texts typed into the filter input
Filters == {<<>>, <<"a">>, <<"B">>, <<".">>}

InitView ==
  /\ fs = ViewFs
  /\ current_dir = Home
  /\ show_hidden = FALSE
  /\ sort_mode = "name"
  /\ filter_text = <<>>
  /\ clipboard = {}
  /\ clipboard_op = "copy"
  /\ row_entries = Listing(ViewFs, Home, "name", FALSE, <<>>)
  /\ row_count = Len(Listing(ViewFs, Home, "name", FALSE, <<>>))
  /\ selected = {}
  /\ undo = <<>>
  /\ status = "Refreshed"
  /\ clock = 0
  /\ steps = 0
  /\ git_status = {}
  /\ git_run = Exited(128, <<>>)
  /\ last = Did("mount", FALSE, FALSE, <<>>)

\* changing the view settings, moving between directories, creating and
\* extracting in that home, for MaxViewSteps handlers
NextView ==
  \/ steps < MaxViewSteps /\ action_toggle_hidden
  \/ steps < MaxViewSteps /\ action_cycle_sort
  \/ steps < MaxViewSteps /\ \E text \in Filters : on_filter_changed(text)
  \/ steps < MaxViewSteps /\ action_clear_filter
  \/ steps < MaxViewSteps /\ action_refresh
  \/ steps < MaxViewSteps /\ \E r \in CursorRows : on_row_selected(r)
  \/ steps < MaxViewSteps /\ action_go_up
  \/ steps < MaxViewSteps /\ action_new_file(Rel(nC))
  \/ steps < MaxViewSteps /\ \E r \in CursorRows : action_archive(r, nC, {})

SpecView == InitView /\ [][NextView]_vars

\* a home directory with a directory l the user may not enumerate
nL == <<"l">>
DeniedFs ==
  (<<>> :> OldDir(0)) @@ (<<nA>> :> OldFile(Raw(1), 1)) @@ (<<nHid>> :> OldFile(Raw(2), 2))
    @@ (<<nD>> :> OldDir(1)) @@ (<<nD, nB>> :> OldFile(Raw(3), 0))
    @@ (<<nL>> :> LockedDir(2))

InitDenied ==
  /\ fs = DeniedFs
  /\ current_dir = Home
  /\ show_hidden = FALSE
  /\ sort_mode = "name"
  /\ filter_text = <<>>
  /\ clipboard = {}
  /\ clipboard_op = "copy"
  /\ row_entries = Listing(DeniedFs, Home, "name", FALSE, <<>>)
  /\ row_count = Len(Listing(DeniedFs, Home, "name", FALSE, <<>>))
  /\ selected = {}
  /\ undo = <<>>
  /\ status = "Refreshed"
  /\ clock = 0
  /\ steps = 0
  /\ git_status = {}
  /\ git_run = Exited(128, <<>>)
  /\ last = Did("mount", FALSE, FALSE, <<>>)

\* moving between the directories and redisplaying, for MaxDeniedSteps
\* handlers
NextDenied ==
  \/ steps < MaxDeniedSteps /\ \E r \in CursorRows : on_key(r)
  \/ steps < MaxDeniedSteps /\ \E r \in CursorRows : on_row_selected(r)
  \/ steps < MaxDeniedSteps /\ \E dir \in DOMAIN fs : on_dir_selected(dir)
  \/ steps < MaxDeniedSteps /\ action_go_up
  \/ steps < MaxDeniedSteps /\ action_refresh
  \/ steps < MaxDeniedSteps /\ action_toggle_hidden
  \/ steps < MaxDeniedSteps /\ action_cycle_sort
  \/ steps < MaxDeniedSteps /\ \E text \in Filters : on_filter_changed(text)

SpecDenied == InitDenied /\ [][NextDenied]_vars

\* a home directory that is a git repository
GitFs ==
  (<<>> :> OldDir(0)) @@ (<<nGit>> :> OldDir(0))
    @@ (<<nA>> :> OldFile(Raw(1), 1)) @@ (<<nB>> :> OldFile(Raw(2), 2))
    @@ (<<nD>> :> OldDir(1)) @@ (<<nD, nA>> :> OldFile(Raw(2), 2))
    @@ (<<nD, nB>> :> OldFile(Raw(3), 0))

InitGit ==
  /\ fs = GitFs
  /\ current_dir = Home
  /\ show_hidden = FALSE
  /\ sort_mode = "name"
  /\ filter_text = <<>>
  /\ clipboard = {}
  /\ clipboard_op = "copy"
  /\ row_entries = Listing(GitFs, Home, "name", FALSE, <<>>)
  /\ row_count = Len(Listing(GitFs, Home, "name", FALSE, <<>>))
  /\ selected = {}
  /\ undo = <<>>
  /\ status = "Refreshed"
  /\ clock = 0
  /\ git_status = {}
  /\ git_run = Threw("TimeoutExpired")
  /\ steps = 0
  /\ last = Did("mount", FALSE, FALSE, <<>>)

\* moving about the repository and refreshing, for MaxGitSteps handlers
NextGit ==
  \/ steps < MaxGitSteps /\ \E r \in CursorRows : on_row_selected(r)
  \/ steps < MaxGitSteps /\ \E dir \in DOMAIN fs : on_dir_selected(dir)
  \/ steps < MaxGitSteps /\ action_go_up
  \/ steps < MaxGitSteps /\ action_refresh
  \/ steps < MaxGitSteps /\ action_toggle_hidden

SpecGit == InitGit /\ [][NextGit]_vars

\* ------------------------------ claims ---------------------------------
Handled == steps' = steps + 1
Top(stack) == stack[Len(stack)]
Pushed == Len(undo') = Len(undo) + 1
MutatingOps == {"new_file", "new_dir", "rename", "delete", "paste", "archive", "extract"}

\* C2: a mutating operation that fails leaves the undo stack exactly as it
\* was: nothing is pushed and nothing is removed.
C2_FailedOperationKeepsStack ==
  [][(Handled /\ last'.op \in MutatingOps /\ last'.err) => undo' = undo]_vars

\* a batch delete has failed on a stale target while the stack held an entry
C2_Witness ==
  /\ last.op = "delete" /\ last.err /\ ~last.ok
  /\ status = "Error deleting"
  /\ undo # <<>>

\* C5: a successful rename, paste, archive, extract or create followed at
\* once by undo gives back exactly the filesystem from before the operation,
\* also when the destination name existed before.
C5_OperationThenUndoRestores ==
  [][(Handled /\ last'.op \in (MutatingOps \ {"delete"}) /\ Pushed)
       => RunInverse(fs', Top(undo')).fs = fs]_vars

\* C7: renaming onto a name that exists in the current directory fails:
\* nothing is overwritten, the entry keeps its name, nothing is pushed.
C7_RenameOntoExistingFails ==
  [][\A r \in 1..Len(row_entries), t \in Typed :
       (Handled /\ last'.op = "rename" /\ action_rename(r, t) /\ ~t.abs
          /\ selected_entry(r) # {} /\ Exists(fs, Join(current_dir, t)))
       => (fs' = fs /\ undo' = undo /\ status' = "Error")]_vars

\* C8: creating a file or directory under a name that exists reports that it
\* already exists, changes nothing and pushes nothing; under a free name
\* in an existing directory it creates exactly that empty file or directory.
C8_CreateExistingFails ==
  [][\A t \in Typed :
       /\ (Handled /\ last'.op = "new_file" /\ action_new_file(t))
            => IF Exists(fs, Join(current_dir, t))
                 THEN fs' = fs /\ undo' = undo /\ status' = "File already exists"
                 ELSE IsDir(fs, Parent(Join(current_dir, t)))
                        => fs' = With(fs, Join(current_dir, t), FileNode(Raw(0)))
       /\ (Handled /\ last'.op = "new_dir" /\ action_new_dir(t))
            => IF Exists(fs, Join(current_dir, t))
                 THEN fs' = fs /\ undo' = undo /\ status' = "Directory already exists"
                 ELSE IsDir(fs, Parent(Join(current_dir, t)))
                        => fs' = With(fs, Join(current_dir, t), DirNode)]_vars

\* a file was created once and the second attempt was refused
C8_Witness ==
  /\ last.op = "new_file" /\ ~last.ok
  /\ status = "File already exists"
  /\ undo # <<>> /\ Top(undo).kind = "create" /\ IsFile(fs, Top(undo).target)

\* C9: paste with the clipboard source equal to current directory / source
\* name reports and changes nothing: filesystem, clipboard and undo stack
\* stay as they were, for copy and for cut.
C9_PasteSameLocationNoOp ==
  [][(Handled /\ last'.op = "paste"
        /\ \E src \in clipboard : current_dir \o <<PathName(src)>> = src)
       => /\ fs' = fs /\ undo' = undo
          /\ clipboard' = clipboard /\ clipboard_op' = clipboard_op
          /\ status' = "Same location"]_vars

\* a cut entry was pasted into its own directory
C9_Witness ==
  /\ last.op = "paste" /\ status = "Same location"
  /\ clipboard_op = "cut" /\ clipboard # {}

\* C10: after cut and a successful paste into another directory the entry
\* is at the destination and gone from the source, and undo puts it back
\* at the cut source path.
C10_CutPasteThenUndo ==
  [][(Handled /\ last'.op = "paste" /\ clipboard_op = "cut" /\ last'.ok)
       => \A src \in clipboard :
            LET dst == current_dir \o <<PathName(src)>>
                back == RunInverse(fs', Top(undo'))
            IN /\ ~Exists(fs', src)
               /\ Exists(fs', dst) /\ fs'[dst] = fs[src]
               /\ back.ok
               /\ Exists(back.fs, src) /\ back.fs[src] = fs[src]]_vars

\* C1: undo is last-in first-out over the one stack: a push places the new
\* entry above all earlier ones, every undo runs the inverse of the entry
\* pushed last among those left and removes it, and an undo on the empty
\* stack runs nothing, changes nothing and reports "Nothing to undo".
C1_UndoIsLifo ==
  [][/\ Pushed => undo' = Append(undo, Top(undo'))
     /\ (Handled /\ last'.op = "undo")
          => IF undo = <<>>
               THEN /\ fs' = fs /\ undo' = undo
                    /\ status' = "Nothing to undo"
                    /\ last'.ran = (IF last.op = "undo" THEN last.ran ELSE <<>>)
               ELSE /\ fs' = RunInverse(fs, Top(undo)).fs
                    /\ undo' = SubSeq(undo, 1, Len(undo) - 1)
                    /\ last'.ran = (IF last.op = "undo" THEN last.ran ELSE <<>>)
                                     \o <<Top(undo)>>]_vars

\* a file was created (A), an entry renamed (B), and three undos followed:
\* B's inverse ran, then A's, then nothing
C1_Witness ==
  /\ steps = 5 /\ last.op = "undo" /\ status = "Nothing to undo"
  /\ Len(last.ran) = 2
  /\ last.ran[1].kind = "rename" /\ last.ran[2].kind = "create"
  /\ undo = <<>> /\ fs = InitFs

\* C3: a mutating operation whose filesystem mutation succeeds pushes
\* exactly one undo entry, also when the listing refresh that runs before
\* the push fails.
C3_SuccessPushesOne ==
  [][(Handled /\ last'.op \in MutatingOps /\ last'.ok)
       => (Pushed /\ SubSeq(undo', 1, Len(undo)) = undo)]_vars

\* C4: an undo on a non-empty stack removes exactly the top entry and pushes
\* nothing, whether the inverse succeeds or raises: the depth is one less.
C4_UndoRemovesTop ==
  [][(Handled /\ last'.op = "undo" /\ undo # <<>>)
       => /\ Len(undo') = Len(undo) - 1
          /\ \A i \in 1..Len(undo') : undo'[i] = undo[i]]_vars

\* an inverse has raised (rmdir of a directory that is gone) and its entry
\* is off the stack
C4_Witness ==
  /\ last.op = "undo" /\ ~last.ok /\ status = "Undo failed"
  /\ last.ran # <<>>
  /\ \A i \in 1..Len(undo) : undo[i] # Top(last.ran)

\* the tree below path p of filesystem f, by relative path
TreeAt(f, p) == [q \in {Rebase(x, p, <<>>) : x \in Under(f, p)} |-> f[p \o q]]
Outside(f, p) == Without(f, Under(f, p) \ {p})

\* C6: a delete moves every target into the trash directory, away from its
\* path, and an undo right after it puts every target back at its path with
\* the content it had, leaving none of them in the trash; a batch of n marked
\* entries is restored by that one undo.
C6_SoftDeleteRoundTrip ==
  [][(Handled /\ last'.op = "delete" /\ last'.ok /\ Pushed)
       => LET moves == Top(undo').moves
              back == RunInverse(fs', Top(undo'))
          IN /\ selected # {} => {moves[i][2] : i \in 1..Len(moves)} = selected
             /\ moves # <<>>
             /\ \A i \in 1..Len(moves) :
                  /\ Exists(fs, moves[i][2]) /\ ~Exists(fs', moves[i][2])
                  /\ Parent(moves[i][1]) = TRASH_DIR
                  /\ Exists(fs', moves[i][1])
                  /\ TreeAt(fs', moves[i][1]) = TreeAt(fs, moves[i][2])
                  /\ TreeAt(back.fs, moves[i][2]) = TreeAt(fs, moves[i][2])
                  /\ ~Exists(back.fs, moves[i][1])
             /\ back.ok
             /\ Outside(back.fs, TRASH_DIR) = Outside(With(fs, TRASH_DIR, back.fs[TRASH_DIR]), TRASH_DIR)]_vars

\* two marked entries were deleted as one batch and one undo brought both back
C6_Witness ==
  /\ last.op = "undo" /\ last.ok /\ status = "Undone"
  /\ Len(last.ran) = 1 /\ last.ran[1].kind = "delete" /\ Len(last.ran[1].moves) = 2
  /\ \A i \in 1..2 : Exists(fs, last.ran[1].moves[i][2])
  /\ Outside(fs, TRASH_DIR) = Outside(With(InitFs, TRASH_DIR, fs[TRASH_DIR]), TRASH_DIR)
  /\ Children(fs, TRASH_DIR) = {}

\* C11: the clipboard becomes empty exactly when a cut-paste succeeds: a
\* successful copy-paste, a failed paste of either kind and every undo leave
\* the clipboard source and kind as they were.
C11_ClipboardClearedByCutPaste ==
  [][/\ (clipboard # {} /\ clipboard' = {})
          => (last'.op = "paste" /\ last'.ok /\ clipboard_op = "cut")
     /\ (Handled /\ last'.op = "paste" /\ last'.ok /\ clipboard_op = "cut")
          => (clipboard' = {} /\ clipboard_op' = clipboard_op)
     /\ (Handled /\ (\/ last'.op = "undo"
                     \/ last'.op = "paste" /\ ~(last'.ok /\ clipboard_op = "cut")))
          => (clipboard' = clipboard /\ clipboard_op' = clipboard_op)]_vars

\* one copied source was pasted into two directories, and is still on the
\* clipboard
C11_Witness ==
  /\ last.op = "paste" /\ last.ok
  /\ clipboard # {} /\ clipboard_op = "copy"
  /\ Len(undo) = 2
  /\ undo[1].kind = "copy" /\ undo[2].kind = "copy"
  /\ undo[1].target # undo[2].target

NavOps == {"tree", "open", "go_up", "goto"}

\* C12: every handler that changes the current directory (tree selection,
\* opening a directory row, go-up, go-to-path) leaves the selection set
\* empty.
C12_NavigationClearsSelection ==
  [][current_dir' # current_dir => (last'.op \in NavOps /\ selected' = {})]_vars

\* marks were set and a navigation has dropped them
C12_Witness ==
  /\ last.op \in NavOps /\ last.dropped # {}
  /\ selected = {}

\* the recognized archive suffixes, longest first, and a name without the
\* one it ends with
ArchiveSuffixes ==
  << <<".", "t", "a", "r", ".", "b", "z", "2">>, <<".", "t", "a", "r", ".", "g", "z">>,
     <<".", "t", "a", "r", ".", "x", "z">>, <<".", "b", "z", "2">>, <<".", "t", "a", "r">>,
     <<".", "t", "g", "z">>, <<".", "z", "i", "p">>, <<".", "g", "z">> >>

ArchiveBase(name) ==
  LET hits == {i \in 1..Len(ArchiveSuffixes) : EndsWith(Lower(name), ArchiveSuffixes[i])}
      i == CHOOSE j \in hits : \A k \in hits : Len(ArchiveSuffixes[k]) <= Len(ArchiveSuffixes[j])
  IN IF hits = {} THEN name ELSE SubSeq(name, 1, Len(name) - Len(ArchiveSuffixes[i]))

\* C13: a successful extract puts its output in the archive's directory
\* under the archive's name without its archive extension: d.tar.gz gives a
\* directory d, n.gz gives a file n.
C13_ExtractDestination ==
  [][(Handled /\ last'.op = "extract" /\ last'.ok /\ Pushed)
       => LET dest == current_dir \o <<ArchiveBase(Top(undo').label)>>
          IN /\ Top(undo').target = dest
             /\ Exists(fs', dest)
             /\ ExtractBranch(Top(undo').label) = "gz" <=> IsFile(fs', dest)]_vars

TheOne(S) == CHOOSE x \in S : TRUE

\* C14: the archive action extracts when exactly one entry is targeted
\* (the only marked entry, or the cursor entry when nothing is marked) and
\* its name has a recognized archive suffix; in every other case with a
\* target it archives the targets.
C14_ArchiveOrExtract ==
  [][\A r \in CursorRows :
       (Handled /\ last'.op \in {"archive", "extract"} /\ _effective_targets(r) # {}
          /\ \E w \in SUBSET _effective_targets(r) :
               \E n \in ArchiveNames(_effective_targets(r)) \cup {nC} : action_archive(r, n, w))
       => (last'.op = "extract"
             <=> /\ Cardinality(_effective_targets(r)) = 1
                 /\ is_archive(PathName(TheOne(_effective_targets(r)))))]_vars

\* the suffixes some extraction branch handles
Extractable(name) ==
  \E i \in 1..Len(ArchiveSuffixes) :
     /\ ArchiveSuffixes[i] # <<".", "b", "z", "2">>
     /\ EndsWith(Lower(name), ArchiveSuffixes[i])

\* C15: extracting an entry whose suffix no extraction branch supports (a
\* bare .bz2) reports an unsupported-format error, creates nothing and
\* pushes no undo entry.
C15_UnsupportedFormat ==
  [][\A r \in CursorRows :
       (Handled /\ selected = {} /\ selected_entry(r) # {}
          /\ is_archive(PathName(TheOne(selected_entry(r))))
          /\ ~Extractable(PathName(TheOne(selected_entry(r))))
          /\ action_archive(r, nC, {}))
       => /\ status' = "Unsupported archive format"
          /\ fs' = fs /\ undo' = undo]_vars

\* the bzip2 file was sent to extract and refused
C15_Witness ==
  /\ last.op = "extract" /\ status = "Unsupported archive format"
  /\ IsFile(fs, <<nBz2>>) /\ ~Exists(fs, <<PathStem(nBz2)>>)

\* the trash paths of f' that f did not have
NewInTrash(f, g) == Children(g, TRASH_DIR) \ DOMAIN f

\* C16: when the move of the k-th of n delete targets fails, the targets
\* before it are in the trash and stay there, the k-th and the later ones
\* are where they were, the report names the k-th, and nothing is pushed.
C16_BatchDeleteNotTransactional ==
  [][\A r \in CursorRows : \A o \in Orders(_effective_targets(r)) :
       (Handled /\ last'.op = "delete" /\ status' = "Error deleting"
          /\ action_delete(r, o))
       => \E k \in 1..Len(o) :
            /\ \A i \in 1..(k - 1) :
                 /\ ~Exists(fs', o[i])
                 /\ \E t \in NewInTrash(fs, fs') : TreeAt(fs', t) = TreeAt(fs, o[i])
            /\ Cardinality(NewInTrash(fs, fs')) = k - 1
            /\ \A i \in k..Len(o) :
                 IF Exists(fs, o[i]) THEN Exists(fs', o[i]) /\ TreeAt(fs', o[i]) = TreeAt(fs, o[i])
                 ELSE ~Exists(fs', o[i])
            /\ last'.named = PathName(o[k])
            /\ undo' = undo]_vars

\* a batch of two failed on its second entry: the first is in the trash,
\* the report names the second, the stack holds no delete entry
C16_Witness ==
  /\ last.op = "delete" /\ status = "Error deleting"
  /\ Cardinality(selected) = 2
  /\ \E p \in selected : PathName(p) = last.named /\ ~Exists(fs, p)
  /\ \E p \in selected : PathName(p) # last.named /\ ~Exists(fs, p)
  /\ Cardinality(Children(fs, TRASH_DIR)) = 1
  /\ \A i \in 1..Len(undo) : undo[i].kind # "delete"

\* C17: undoing a delete when the parent directory of a trashed entry's
\* original path no longer exists fails with a report, that entry remains
\* in the trash and appears nowhere else, and the undo entry is consumed.
C17_RestoreWithoutParent ==
  [][(Handled /\ last'.op = "undo" /\ undo # <<>> /\ Top(undo).kind = "delete")
       => \A i \in 1..Len(Top(undo).moves) :
            LET trashed == Top(undo).moves[i][1]
                original == Top(undo).moves[i][2]
            IN (Exists(fs, trashed) /\ ~Exists(fs, Parent(original)))
                 => /\ status' = "Undo failed"
                    /\ Exists(fs', trashed) /\ TreeAt(fs', trashed) = TreeAt(fs, trashed)
                    /\ Outside(fs', TRASH_DIR) = Outside(fs, TRASH_DIR)
                    /\ undo' = SubSeq(undo, 1, Len(undo) - 1)]_vars

\* ------------------------------ the listing ----------------------------
Modes == {SORT_MODES[i] : i \in 1..Len(SORT_MODES)}
ViewOps == {"refresh", "toggle_hidden", "cycle_sort", "filter", "clear_filter"}
Redisplayed == last.op \in ViewOps /\ ~last.err

\* in the sequence l no file comes before a directory
DirsFirst(f, l) ==
  \A i, j \in 1..Len(l) : (IsDir(f, l[i]) /\ ~IsDir(f, l[j])) => i < j

\* C18: in the listing produced for any directory, under every sort mode,
\* hidden setting and filter text, every directory precedes every file; so
\* do the rows a handler has just redisplayed.
C18_DirectoriesFirst ==
  /\ \A dir \in {p \in DOMAIN fs : IsDir(fs, p)} :
       \A mode \in Modes, show \in BOOLEAN, ftext \in Filters :
         DirsFirst(fs, Listing(fs, dir, mode, show, ftext))
  /\ Redisplayed => DirsFirst(fs, row_entries)

\* the rows were redisplayed by modification time and a directory stands
\* before a file modified after it
C18_Witness ==
  /\ Redisplayed
  /\ sort_mode = "modified"
  /\ \E i, j \in 1..Len(row_entries) :
       /\ i < j
       /\ IsDir(fs, row_entries[i]) /\ ~IsDir(fs, row_entries[j])
       /\ fs[row_entries[i]].mtime < fs[row_entries[j]].mtime

\* the entry passes the hidden-file policy and the text filter
Passes(p, show, ftext) ==
  /\ (show \/ PathName(p)[1] # ".")
  /\ \E i \in 0..(Len(PathName(p)) - Len(ftext)) :
       \A k \in 1..Len(ftext) : LowerChar(PathName(p)[i + k]) = LowerChar(ftext[k])

\* l lists, once each and in the order of the sort mode, the direct
\* children of dir that pass
ListsExactly(f, dir, mode, show, ftext, l) ==
  /\ {l[i] : i \in 1..Len(l)} = {p \in Children(f, dir) : Passes(p, show, ftext)}
  /\ \A i, j \in 1..Len(l) : i < j => (l[i] # l[j] /\ ~KeyLess(f, mode, l[j], l[i]))

\* C19: the listing contains exactly the direct children of the directory
\* that pass the hidden-file policy and the case-insensitive substring
\* filter, in the order of the sort mode; with an empty filter it is the
\* sorted listing under the hidden policy alone. The rows a handler has
\* just redisplayed are that listing of the current directory.
C19_ListingContents ==
  /\ \A dir \in {p \in DOMAIN fs : IsDir(fs, p)} :
       \A mode \in Modes, show \in BOOLEAN :
         /\ \A ftext \in Filters :
              ListsExactly(fs, dir, mode, show, ftext, Listing(fs, dir, mode, show, ftext))
         /\ Listing(fs, dir, mode, show, <<>>)
              = SelectSeq(_sort_entries(fs, mode, IterDir(fs, dir)),
                          LAMBDA p : show \/ PathName(p)[1] # ".")
  /\ Redisplayed =>
       ListsExactly(fs, current_dir, sort_mode, show_hidden, filter_text, row_entries)

\* the rows were redisplayed under a filter in upper case that kept a name
\* in lower case and dropped others, with the hidden entries left out
C19_Witness ==
  /\ Redisplayed
  /\ filter_text = <<"B">>
  /\ ~show_hidden
  /\ \E i \in 1..Len(row_entries) : PathName(row_entries[i]) = nBc
  /\ \E p \in Children(fs, current_dir) : ~Passes(p, TRUE, filter_text)
  /\ \E p \in Children(fs, current_dir) : ~Passes(p, FALSE, <<>>)

\* the step is action_toggle_hidden and the handler before it was too
ToggledTwice ==
  /\ last.op = "toggle_hidden" /\ ~last.err
  /\ Handled /\ last'.op = "toggle_hidden" /\ ~last'.err

\* C20: toggling hidden-file display twice yields exactly the ordered entry
\* sequence shown before the first toggle, and a toggle leaves sort mode,
\* filter text, selection, clipboard and undo history unchanged.
C20_ToggleHiddenTwice ==
  [][/\ ToggledTwice => row_entries' = last.before
     /\ (Handled /\ last'.op = "toggle_hidden") =>
          UNCHANGED <<sort_mode, filter_text, selected, clipboard, clipboard_op, undo>>]_vars

\* ------------------------- the denied directory ------------------------
\* the handler that ran refreshed the listing of a directory whose
\* enumeration is denied
RefreshDenied ==
  /\ Handled
  /\ last'.op \in NavOps \cup ViewOps \cup {"select"}
  /\ IsDir(fs', current_dir') /\ ~fs'[current_dir'].readable

\* C21: when enumeration of the current directory is denied, the refresh
\* leaves the displayed listing untouched: the displayed rows and the
\* row-to-entry mapping are the same as before the refresh.
C21_DeniedRefreshKeepsListing ==
  [][RefreshDenied => (row_count' = row_count /\ row_entries' = row_entries)]_vars

\* ------------------------ listing after a mutation ---------------------
\* the handler that ran was a mutating operation or an undo, it returned,
\* and the filesystem is not the one it started on
Mutated ==
  /\ Handled
  /\ last'.op \in MutatingOps \cup {"undo"}
  /\ fs' # fs

\* C22: after any mutating operation or undo that changed the filesystem,
\* a batch delete or an undo that failed part-way included, the displayed
\* entries are the listing of the current directory and every displayed
\* entry exists.
C22_MutationRegeneratesListing ==
  [][Mutated =>
       /\ IsDir(fs', current_dir')
       /\ row_entries' = Listing(fs', current_dir', sort_mode', show_hidden', filter_text')
       /\ row_count' = Len(row_entries')
       /\ \A i \in 1..Len(row_entries') : Exists(fs', row_entries'[i])]_vars

\* ----------------------------- the git probe --------------------------
\* the handler that ran invoked the probe: a navigation or a refresh
Probed == Handled /\ last'.op \in NavOps \cup {"refresh"}

\* C23: the probe never fails: when the status command is missing, times
\* out, or exits with a non-zero code (not a repository included) the
\* mapping is empty, and the navigation or refresh that invoked the probe
\* proceeds normally, displaying the listing of the current directory.
C23_ProbeNeverFails ==
  [][Probed =>
       /\ status' # "Crashed" /\ ~last'.err
       /\ row_entries' = Listing(fs', current_dir', sort_mode', show_hidden', filter_text')
       /\ (git_run'.kind = "raise" \/ git_run'.code # 0) => git_status' = {}]_vars

\* a navigation whose probe timed out has displayed the directory
C23_Witness ==
  /\ last.op \in NavOps /\ ~last.err
  /\ git_run = Threw("TimeoutExpired")
  /\ git_status = {}
  /\ steps > 1
  /\ row_count > 0 /\ status = "Items"

\* the code a status column stands for, none for a blank column
ColumnCode(c) ==
  IF c = " " THEN {} ELSE IF c \in {"?", "A", "M", "D", "R"} THEN {c} ELSE {"~"}

\* untracked, added, modified, deleted, renamed, generic changed
CodeOrder == <<"?", "A", "M", "D", "R", "~">>
FirstCode(S) ==
  CodeOrder[CHOOSE i \in 1..Len(CodeOrder) :
              CodeOrder[i] \in S /\ \A j \in 1..(i - 1) : CodeOrder[j] \notin S]

\* the first segment of the path a line is about
Segment(l) == IF l.dest = <<>> THEN l.path[1] ELSE l.dest[1]

\* the codes that could apply to segment seg in the output
CodesFor(lines, seg) ==
  UNION {ColumnCode(lines[i].x) \cup ColumnCode(lines[i].y) :
           i \in {k \in 1..Len(lines) : Segment(lines[k]) = seg}}

\* C24: after a probe whose command succeeded, each top-level segment of
\* the output is mapped to the code that comes first, in the order
\* untracked, added, modified, deleted, renamed, generic changed, among
\* the codes of the status columns of all lines reducing to that segment.
C24_StatusCodePriority ==
  [][(Probed /\ git_run'.kind = "exit" /\ git_run'.code = 0) =>
       git_status' = {[name |-> Segment(git_run'.lines[i]),
                       code |-> FirstCode(CodesFor(git_run'.lines, Segment(git_run'.lines[i])))] :
                        i \in 1..Len(git_run'.lines)}]_vars

\* ------------------------- archive then extract ------------------------
\* the files at or below p in f, each by its path relative to base and its
\* content
FilesBelow(f, p, base) ==
  {[rel |-> Rebase(q, base, <<>>), blob |-> f[q].blob] : q \in {x \in Under(f, p) : IsFile(f, x)}}

\* one entry was archived by the handler before, and this handler extracts
\* the archive that made
RoundTrip ==
  /\ last.op = "archive" /\ last.ok /\ ~last.err /\ Len(last.ran) = 2
  /\ Handled /\ last'.op = "extract" /\ Len(last'.ran) = 3
  /\ last'.ran[1] = last.ran[1]

\* C25: archiving an entry e, a file or a directory tree, and then
\* extracting the resulting archive succeeds and leaves under the
\* extraction destination the relative file paths of e, each with the
\* content it has in e, and no others.
C25_ArchiveRoundTrip ==
  [][RoundTrip =>
       /\ last'.ok
       /\ FilesBelow(fs', last'.ran[2], last'.ran[2])
            = FilesBelow(fs, last.ran[2], Parent(last.ran[2]))]_vars

\* the handler before extracted an archive and this one undoes that
UndoesExtract ==
  /\ last.op = "extract" /\ last.ok /\ ~last.err
  /\ Handled /\ last'.op = "undo"

\* C26: undoing an extract never deletes an entry that existed before the
\* extraction: whatever was at or below the destination before the
\* archive was extracted is still there after the undo.
C26_UndoExtractKeepsExisting ==
  [][UndoesExtract => \A q \in last.ran[3] : Exists(fs', q)]_vars

\* ---------------------- selection and current directory ----------------
\* C27: every path in the selection set is an existing direct child of the
\* current directory.
C27_SelectionExists ==
  \A p \in selected : Exists(fs, p) /\ Len(p) > 0 /\ Parent(p) = current_dir

\* C28: the current directory is an existing directory.
C28_CurrentDirExists == IsDir(fs, current_dir)

\* C29: action_undo reports 'Undone' exactly when the inverse action
\* completed without raising, and 'Undo failed' only when the inverse
\* itself raised; a refresh that fails after a successful inverse is not
\* reported as a failed undo.
C29_UndoReportsInverseOutcome ==
  [][(Handled /\ last'.op = "undo") =>
       /\ (status' = "Undone") <=> last'.ok
       /\ (status' = "Undo failed") => ~last'.ok]_vars

=============================================================================
